---- MODULE Spec2Model ----
(***************************************************************************)
(* Model of backend.py: the in-memory reading log (EXPERIMENTAL_DATA_LOG), *)
(* the ingestion endpoint log_data, the listing endpoint get_all_data and  *)
(* the estimator calculate_band_gap.                                       *)
(*                                                                         *)
(* Numbers.  Python floats are modelled as tagged fixed-point values       *)
(* [kind, nan, v]: kind = "float" marks a converted value, nan marks the   *)
(* IEEE not-a-number, v is the value in the unit of the quantity:          *)
(*   temperature   0.01 degree Celsius      (2500      = 25.00 C)          *)
(*   current       1e-10 ampere             (10000000  = 1 mA)             *)
(*   voltage       0.1 volt                                                *)
(*   T_kelvin      0.01 kelvin                                             *)
(*   1/T_kelvin    1e-4 per kelvin                                         *)
(*   ln(current)   0.1                                                     *)
(*   slope         1 kelvin                                                *)
(*   band gap      1e-6 electron-volt                                      *)
(*   r_squared     1e-3                                                    *)
(* JSON payload values keep the same record shape with kind "num" (JSON    *)
(* number), "str" (numeric string), "bad" (a string that is no number) or  *)
(* "missing" (the key is absent, dict.get gives None).                     *)
(***************************************************************************)
EXTENDS Integers, Sequences, FiniteSets, TLC

\* ------------------------------------------------------------------ bounds

\* Largest number of readings the log may hold in the model.
MaxStore == 2

\* ------------------------------------------------------------------ values

Float(n) == [kind |-> "float", nan |-> FALSE, v |-> n]
NaN      == [kind |-> "float", nan |-> TRUE,  v |-> 0]

JNum(n)  == [kind |-> "num",     nan |-> FALSE, v |-> n]
JStr(n)  == [kind |-> "str",     nan |-> FALSE, v |-> n]
JStrNaN  == [kind |-> "str",     nan |-> TRUE,  v |-> 0]
JBad     == [kind |-> "bad",     nan |-> FALSE, v |-> 0]
Missing  == [kind |-> "missing", nan |-> FALSE, v |-> 0]

Fields == <<"temperature", "current", "voltage">>

\* 273.15 K in units of 0.01 K (line 64).
KelvinOffset == 27315
\* 1e-9 A in units of 1e-10 A (line 68).
CurrentTolerance == 10
\* Boltzmann constant 8.617e-5 eV/K in units of 1e-8 eV/K (line 80).
k_B == 8617
\* The numerator 1 of 1 / T_kelvin, in units of 1e-4/K over a 0.01 K divisor.
InvScale == 1000000

\* The numbers the front-end may send for each key, as a JSON number or as a
\* numeric string.  -273.15 C is absolute zero; 1e-9 A is exactly the
\* tolerance; "nan" is a string float() accepts.
RawTemperature == {JNum(0 - KelvinOffset), JNum(2500), JStr(5000), JStrNaN}
RawCurrent     == {JNum(CurrentTolerance), JStr(10000000), JNum(20000000)}
RawVoltage     == {JNum(7)}

ValidPayloads ==
    [temperature : RawTemperature, current : RawCurrent, voltage : RawVoltage,
     object : {TRUE}]

\* Payloads with one key absent or holding a string that is no number (the
\* other two hold numbers), and the empty object.
InvalidPayloads ==
    {[[temperature |-> JNum(2500), current |-> JStr(10000000), voltage |-> JNum(7),
       object |-> TRUE] EXCEPT ![f] = x] :
         f \in {"temperature", "current", "voltage"}, x \in {Missing, JBad}}
    \cup {[temperature |-> Missing, current |-> Missing, voltage |-> Missing,
           object |-> TRUE]}

\* A payload that is no JSON object (a list, null): data.get does not exist.
NotAnObject == [temperature |-> JBad, current |-> JBad, voltage |-> JBad, object |-> FALSE]

Payloads == ValidPayloads \cup InvalidPayloads \cup {NotAnObject}

\* ------------------------------------------------------------------ state

VARIABLES
    EXPERIMENTAL_DATA_LOG,  \* the log (line 10), a sequence of readings
    response,               \* the response of the last request served
    accepted,               \* history: the readings answered 201, in order
    ids,                    \* history: the ids returned with 201, in order
    before,                 \* history: the log as the last request found it
    invalid,                \* history: the keys of the last log_data payload
                            \*          that were missing or no number
    X_inv_T,                \* the list X_inv_T of the calculate_band_gap request
    Y_ln_I,                 \* the list Y_ln_I of the calculate_band_gap request
                            \*   just served (empty after any other request)
    lastCalc,               \* history: the last calculate_band_gap response,
                            \*          valid until the next 201
    repeated,               \* history: two calculate_band_gap responses with
                            \*          no 201 between them
    svd_raises,             \* the numpy build: LinAlgError on a NaN, or not
    threads,                \* concurrent serving: where each log_data request
                            \*   stands, its dict, and (history) the position
                            \*   of its reading and the appends made after it
    returned                \* history: the ids answered by concurrent requests

vars == <<EXPERIMENTAL_DATA_LOG, response, accepted, ids, before, invalid,
          X_inv_T, Y_ln_I, lastCalc, repeated, svd_raises, threads, returned>>

\* The requests the threaded server handles at the same time.
Threads == {1, 2}

NoResponse == [op |-> "none", status |-> 0, kind |-> "none"]
NoCalc     == [valid |-> FALSE, resp |-> NoResponse]
NoRepeat   == [set |-> FALSE, first |-> NoResponse, second |-> NoResponse]

\* ------------------------------------------------------------------ log_data

\* float(x) of Python (lines 39-41): a number or a numeric string converts,
\* None raises TypeError, any other string raises ValueError.
float_(x) ==
    CASE x.kind \in {"num", "str", "float"} ->
            [ok |-> TRUE, val |-> [kind |-> "float", nan |-> x.nan, v |-> x.v],
             exc |-> "none"]
      [] x.kind = "missing" ->
            [ok |-> FALSE, val |-> x, exc |-> "TypeError"]
      [] OTHER ->
            [ok |-> FALSE, val |-> x, exc |-> "ValueError"]

\* Lines 36-41: the three conversions, in order, each written back into the
\* payload dict; the first one that raises ends the sequence.  The result is
\* the dict as it stands and the exception raised, if any.
RECURSIVE Convert(_, _)
Convert(data, i) ==
    IF i > Len(Fields) THEN [ok |-> TRUE, data |-> data, exc |-> "none"]
    ELSE LET f == Fields[i]
             c == float_(data[f])
         IN  IF c.ok THEN Convert([data EXCEPT ![f] = c.val], i + 1)
             ELSE [ok |-> FALSE, data |-> data, exc |-> c.exc]

ParsePayload(payload) ==
    IF ~payload.object
    THEN [ok |-> FALSE, data |-> payload, exc |-> "AttributeError"]
    ELSE Convert([f \in {"temperature", "current", "voltage"} |-> payload[f]], 1)

\* The keys of a payload that are absent or hold no number.
InvalidKeys(payload) ==
    IF ~payload.object THEN {"temperature", "current", "voltage"}
    ELSE {f \in {"temperature", "current", "voltage"} :
              payload[f].kind \in {"missing", "bad"}}

\* Mutant of StoreAppend: the dict is inserted at the front of the log.
StorePrepend(log, data) == <<data>> \o log

\* Line 43: the converted dict goes to the end of the log.
StoreAppend(log, data) == Append(log, data)

\* Mutant of LoggedId: the length itself, a 1-based id.
LoggedIdOneBased(log) == Len(log)

\* Line 46: the id is the length of the log, read after the append, minus one.
LoggedId(log) == Len(log) - 1

\* Mutant of log_data: the dict is appended before its keys are converted,
\* so a payload that is then rejected has already reached the log.
log_data_append_first(payload) ==
    LET r == ParsePayload(payload) IN
    /\ Len(EXPERIMENTAL_DATA_LOG) < MaxStore
    /\ payload.object
    /\ EXPERIMENTAL_DATA_LOG' = StoreAppend(EXPERIMENTAL_DATA_LOG, r.data)
    /\ before' = EXPERIMENTAL_DATA_LOG
    /\ invalid' = InvalidKeys(payload)
    /\ repeated' = NoRepeat
    /\ X_inv_T' = <<>>
    /\ Y_ln_I' = <<>>
    /\ lastCalc' = NoCalc
    /\ UNCHANGED <<svd_raises, threads, returned>>
    /\ IF r.ok
       THEN /\ response' = [op |-> "log_data", status |-> 201, kind |-> "logged",
                            id |-> LoggedId(EXPERIMENTAL_DATA_LOG')]
            /\ accepted' = Append(accepted, r.data)
            /\ ids' = Append(ids, LoggedId(EXPERIMENTAL_DATA_LOG'))
       ELSE /\ response' = [op |-> "log_data", status |-> 500, kind |-> "error",
                            error |-> r.exc]
            /\ UNCHANGED <<accepted, ids>>

\* POST /api/log_data, lines 33-49, handled as one step.
log_data(payload) ==
    LET r == ParsePayload(payload) IN
    /\ before' = EXPERIMENTAL_DATA_LOG
    /\ invalid' = InvalidKeys(payload)
    /\ repeated' = NoRepeat
    /\ X_inv_T' = <<>>
    /\ Y_ln_I' = <<>>
    /\ UNCHANGED <<svd_raises, threads, returned>>
    /\ IF r.ok
       THEN /\ Len(EXPERIMENTAL_DATA_LOG) < MaxStore
            /\ EXPERIMENTAL_DATA_LOG' = StoreAppend(EXPERIMENTAL_DATA_LOG, r.data)
            /\ response' = [op |-> "log_data", status |-> 201, kind |-> "logged",
                            id |-> LoggedId(EXPERIMENTAL_DATA_LOG')]
            /\ accepted' = Append(accepted, r.data)
            /\ ids' = Append(ids, LoggedId(EXPERIMENTAL_DATA_LOG'))
            /\ lastCalc' = NoCalc
       ELSE /\ response' = [op |-> "log_data", status |-> 500, kind |-> "error",
                            error |-> r.exc]
            /\ UNCHANGED <<EXPERIMENTAL_DATA_LOG, accepted, ids, lastCalc>>

\* ------------------------------------------------------------------ get_all_data

\* GET /api/get_all_data, lines 52-54.
get_all_data ==
    /\ response' = [op |-> "get_all_data", status |-> 200, kind |-> "data",
                    data |-> EXPERIMENTAL_DATA_LOG,
                    count |-> Len(EXPERIMENTAL_DATA_LOG)]
    /\ before' = EXPERIMENTAL_DATA_LOG
    /\ repeated' = NoRepeat
    /\ invalid' = {}
    /\ X_inv_T' = <<>>
    /\ Y_ln_I' = <<>>
    /\ UNCHANGED <<EXPERIMENTAL_DATA_LOG, accepted, ids, lastCalc, svd_raises,
                   threads, returned>>

\* ------------------------------------------------------------------ calculate_band_gap

\* data['temperature'] + 273.15 (line 64).
T_kelvin(temperature) ==
    IF temperature.nan THEN NaN ELSE Float(temperature.v + KelvinOffset)

\* current > 1e-9 (line 68); every comparison with a NaN is false.
AboveTolerance(current) == ~current.nan /\ current.v > CurrentTolerance

\* 1 / T_kelvin (line 69) for a T_kelvin other than 0.0, where Python raises.
Inverse(t) == IF t.nan THEN NaN ELSE Float(InvScale \div t.v)

\* math.log(current) (line 70) to one decimal, for the currents of the model:
\* ln(1e-9) = -20.7, ln(1e-3) = -6.9, ln(2e-3) = -6.2.
math_log(current) ==
    CASE current.v = 10       -> Float(0 - 207)
      [] current.v = 10000000 -> Float(0 - 69)
      [] current.v = 20000000 -> Float(0 - 62)

\* The loop of lines 63-70 from reading i on, with the lists built so far.
\* It ends with the two lists, or with ZeroDivisionError at the first reading
\* above the tolerance whose T_kelvin is 0.0; nothing catches that exception.
RECURSIVE BuildWorkingSet(_, _, _, _)
BuildWorkingSet(log, i, X, Y) ==
    IF i > Len(log) THEN [raised |-> FALSE, X_inv_T |-> X, Y_ln_I |-> Y]
    ELSE LET data == log[i]
             T == T_kelvin(data.temperature)
             current == data.current
         IN  IF AboveTolerance(current)
             THEN IF ~T.nan /\ T.v = 0
                  THEN [raised |-> TRUE, X_inv_T |-> X, Y_ln_I |-> Y]
                  ELSE BuildWorkingSet(log, i + 1, Append(X, Inverse(T)),
                                       Append(Y, math_log(current)))
             ELSE BuildWorkingSet(log, i + 1, X, Y)

RECURSIVE Sum(_)
Sum(s) == IF s = <<>> THEN 0 ELSE Head(s).v + Sum(Tail(s))

RECURSIVE SumProd(_, _)
SumProd(s, t) ==
    IF s = <<>> THEN 0 ELSE Head(s).v * Head(t).v + SumProd(Tail(s), Tail(t))

AnyNaN(s) == \E i \in 1..Len(s) : s[i].nan

\* n * sum(s t) - sum(s) sum(t): n^2 times the covariance of s and t.
Cross(s, t) == Len(s) * SumProd(s, t) - Sum(s) * Sum(t)

\* np.polyfit(X, Y, 1)[0] (line 77), the least-squares slope.  LAPACK's
\* least-squares driver does not converge on a NaN: depending on the build
\* numpy raises LinAlgError or returns NaN coefficients (raises_on_nan); an x
\* column of zeros scales to NaN inside polyfit and ends the same way.  When
\* every x is the same the system is rank deficient: numpy warns and returns
\* the minimum-norm solution, slope = mean(y) / (2 x); it does not raise.
np_polyfit(X, Y, raises_on_nan) ==
    IF AnyNaN(X) \/ AnyNaN(Y) \/ (\A i \in 1..Len(X) : X[i].v = 0)
    THEN IF raises_on_nan
         THEN [ok |-> FALSE, slope |-> NaN, exc |-> "LinAlgError"]
         ELSE [ok |-> TRUE, slope |-> NaN, exc |-> "none"]
    ELSE IF Cross(X, X) = 0
         THEN [ok |-> TRUE, exc |-> "none",
               slope |-> Float((1000 * Sum(Y)) \div (2 * Len(X) * X[1].v))]
         ELSE [ok |-> TRUE, exc |-> "none",
               slope |-> Float((1000 * Cross(X, Y)) \div Cross(X, X))]

\* Eg = -2 * k_B * slope (line 83).
BandGap(slope) ==
    IF slope.nan THEN NaN ELSE Float(((0 - 2) * k_B * slope.v) \div 100)

\* np.corrcoef(X, Y)[0,1]**2 (lines 86-87).  With no variance in X or in Y
\* the correlation is 0/0: numpy warns and returns NaN; it does not raise.
r_squared_of(X, Y) ==
    IF AnyNaN(X) \/ AnyNaN(Y) \/ Cross(X, X) * Cross(Y, Y) = 0
    THEN NaN
    ELSE Float((1000 * Cross(X, Y) * Cross(X, Y)) \div (Cross(X, X) * Cross(Y, Y)))

\* The response of lines 72-101 to the working set (X, Y).
FitResponse(X, Y, raises_on_nan) ==
    IF Len(X) < 2
    THEN [op |-> "calculate_band_gap", status |-> 400, kind |-> "error",
          error |-> "Not enough valid data points"]
    ELSE LET fit == np_polyfit(X, Y, raises_on_nan) IN
         IF ~fit.ok
         THEN [op |-> "calculate_band_gap", status |-> 500, kind |-> "error",
               error |-> fit.exc]
         ELSE [op |-> "calculate_band_gap", status |-> 200, kind |-> "success",
               band_gap_eV |-> BandGap(fit.slope),
               r_squared |-> r_squared_of(X, Y),
               slope_value |-> fit.slope,
               regression_points |-> [inv_T |-> X, ln_I |-> Y]]

\* The response of the whole handler, lines 57-101.  An exception raised by
\* the loop leaves the handler: the framework answers 500 with its own error
\* page, not with the handler's {error} object.
BandGapResponse(log, raises_on_nan) ==
    LET w == BuildWorkingSet(log, 1, <<>>, <<>>) IN
    IF w.raised
    THEN [op |-> "calculate_band_gap", status |-> 500, kind |-> "unhandled",
          error |-> "ZeroDivisionError"]
    ELSE FitResponse(w.X_inv_T, w.Y_ln_I, raises_on_nan)

\* Mutant of calculate_band_gap: the readings dropped from the fit are also
\* removed from the log.
calculate_band_gap_prunes ==
    LET w == BuildWorkingSet(EXPERIMENTAL_DATA_LOG, 1, <<>>, <<>>)
        r == BandGapResponse(EXPERIMENTAL_DATA_LOG, svd_raises)
    IN  /\ response' = r
        /\ X_inv_T' = w.X_inv_T
        /\ Y_ln_I' = w.Y_ln_I
        /\ EXPERIMENTAL_DATA_LOG' =
               SelectSeq(EXPERIMENTAL_DATA_LOG, LAMBDA d : AboveTolerance(d.current))
        /\ repeated' = IF lastCalc.valid
                       THEN [set |-> TRUE, first |-> lastCalc.resp, second |-> r]
                       ELSE NoRepeat
        /\ lastCalc' = [valid |-> TRUE, resp |-> r]
        /\ before' = EXPERIMENTAL_DATA_LOG
        /\ invalid' = {}
        /\ UNCHANGED <<accepted, ids, svd_raises, threads, returned>>

\* Mutant of calculate_band_gap: X_inv_T and Y_ln_I are not emptied at the
\* start of the request, so the points of the request before are fitted again.
calculate_band_gap_stale_lists ==
    LET w == BuildWorkingSet(EXPERIMENTAL_DATA_LOG, 1, X_inv_T, Y_ln_I)
        r == IF w.raised
             THEN [op |-> "calculate_band_gap", status |-> 500, kind |-> "unhandled",
                   error |-> "ZeroDivisionError"]
             ELSE FitResponse(w.X_inv_T, w.Y_ln_I, svd_raises)
    IN  /\ response' = r
        /\ X_inv_T' = w.X_inv_T
        /\ Y_ln_I' = w.Y_ln_I
        /\ repeated' = IF lastCalc.valid
                       THEN [set |-> TRUE, first |-> lastCalc.resp, second |-> r]
                       ELSE NoRepeat
        /\ lastCalc' = [valid |-> TRUE, resp |-> r]
        /\ before' = EXPERIMENTAL_DATA_LOG
        /\ invalid' = {}
        /\ UNCHANGED <<EXPERIMENTAL_DATA_LOG, accepted, ids, svd_raises,
                       threads, returned>>

\* GET /api/calculate_band_gap, lines 57-101.
calculate_band_gap ==
    LET w == BuildWorkingSet(EXPERIMENTAL_DATA_LOG, 1, <<>>, <<>>)
        r == BandGapResponse(EXPERIMENTAL_DATA_LOG, svd_raises)
    IN  /\ response' = r
        /\ X_inv_T' = w.X_inv_T
        /\ Y_ln_I' = w.Y_ln_I
        /\ repeated' = IF lastCalc.valid
                       THEN [set |-> TRUE, first |-> lastCalc.resp, second |-> r]
                       ELSE NoRepeat
        /\ lastCalc' = [valid |-> TRUE, resp |-> r]
        /\ before' = EXPERIMENTAL_DATA_LOG
        /\ invalid' = {}
        /\ UNCHANGED <<EXPERIMENTAL_DATA_LOG, accepted, ids, svd_raises,
                       threads, returned>>

\* ------------------------------------------------------------------ concurrent log_data

(***************************************************************************)
(* The development server handles each request in a thread of its own.     *)
(* log_data touches the log twice, at line 43 (append) and at line 46     *)
(* (len), with a print between them; each touch is atomic, and another     *)
(* request may run between the two.  get_all_data reads the log in one     *)
(* expression.  calculate_band_gap iterates over the live list, so it sees *)
(* every reading appended before the loop ends: its result is the one of   *)
(* the one-step handler run at that moment.                                *)
(***************************************************************************)

Idle == [pc |-> "idle", data |-> <<>>, pos |-> 0, later |-> 0]

\* The payloads of the concurrent requests.
ConcPayloads ==
    { [temperature |-> JNum(2500), current |-> JStr(10000000), voltage |-> JNum(7),
       object |-> TRUE],
      [temperature |-> JStr(5000), current |-> JNum(20000000), voltage |-> JNum(7),
       object |-> TRUE],
      [temperature |-> JNum(2500), current |-> JStr(10000000), voltage |-> Missing,
       object |-> TRUE] }

\* Lines 35-41 of request t: read the payload and convert the three keys.
convert_log_data(t, payload) ==
    LET r == ParsePayload(payload) IN
    /\ threads[t].pc = "idle"
    /\ invalid' = InvalidKeys(payload)
    /\ before' = EXPERIMENTAL_DATA_LOG
    /\ IF r.ok
       THEN /\ threads' = [threads EXCEPT ![t] = [Idle EXCEPT !.pc = "converted",
                                                             !.data = r.data]]
            /\ UNCHANGED response
       ELSE /\ response' = [op |-> "log_data", status |-> 500, kind |-> "error",
                            error |-> r.exc]
            /\ UNCHANGED threads
    /\ repeated' = NoRepeat
    /\ X_inv_T' = <<>>
    /\ Y_ln_I' = <<>>
    /\ UNCHANGED <<EXPERIMENTAL_DATA_LOG, accepted, ids, lastCalc, svd_raises, returned>>

\* Line 43 of request t: the append.  Every request that has appended and not
\* yet answered counts one more reading behind its own.
append_log_data(t) ==
    /\ threads[t].pc = "converted"
    /\ Len(EXPERIMENTAL_DATA_LOG) < MaxStore
    /\ EXPERIMENTAL_DATA_LOG' = StoreAppend(EXPERIMENTAL_DATA_LOG, threads[t].data)
    /\ threads' = [u \in Threads |->
                     IF u = t
                     THEN [threads[t] EXCEPT !.pc = "appended",
                                             !.pos = Len(EXPERIMENTAL_DATA_LOG)]
                     ELSE IF threads[u].pc = "appended"
                          THEN [threads[u] EXCEPT !.later = @ + 1]
                          ELSE threads[u]]
    /\ accepted' = Append(accepted, threads[t].data)
    /\ lastCalc' = NoCalc
    /\ repeated' = NoRepeat
    /\ before' = EXPERIMENTAL_DATA_LOG
    /\ X_inv_T' = <<>>
    /\ Y_ln_I' = <<>>
    /\ UNCHANGED <<response, ids, invalid, svd_raises, returned>>

\* Lines 45-46 of request t: print, read the length of the log, answer 201.
respond_log_data(t) ==
    /\ threads[t].pc = "appended"
    /\ response' = [op |-> "log_data", status |-> 201, kind |-> "logged",
                    id |-> LoggedId(EXPERIMENTAL_DATA_LOG)]
    /\ returned' = returned \cup
                     {[id |-> LoggedId(EXPERIMENTAL_DATA_LOG),
                       pos |-> threads[t].pos, later |-> threads[t].later]}
    /\ ids' = Append(ids, LoggedId(EXPERIMENTAL_DATA_LOG))
    /\ threads' = [threads EXCEPT ![t] = Idle]
    /\ before' = EXPERIMENTAL_DATA_LOG
    /\ repeated' = NoRepeat
    /\ X_inv_T' = <<>>
    /\ Y_ln_I' = <<>>
    /\ UNCHANGED <<EXPERIMENTAL_DATA_LOG, accepted, invalid, lastCalc, svd_raises>>

\* ------------------------------------------------------------------ specification

Init ==
    /\ EXPERIMENTAL_DATA_LOG = <<>>
    /\ response = NoResponse
    /\ accepted = <<>>
    /\ ids = <<>>
    /\ before = <<>>
    /\ invalid = {}
    /\ X_inv_T = <<>>
    /\ Y_ln_I = <<>>
    /\ lastCalc = NoCalc
    /\ repeated = NoRepeat
    /\ svd_raises \in BOOLEAN
    /\ threads = [t \in Threads |-> Idle]
    /\ returned = {}

Next ==
    \/ \E payload \in Payloads : log_data(payload)
    \/ get_all_data
    \/ calculate_band_gap

\* Requests handled one at a time.
Spec == Init /\ [][Next]_vars

NextConc ==
    \/ \E t \in Threads, payload \in ConcPayloads : convert_log_data(t, payload)
    \/ \E t \in Threads : append_log_data(t)
    \/ \E t \in Threads : respond_log_data(t)
    \/ get_all_data
    \/ calculate_band_gap

\* log_data requests handled concurrently, their steps interleaved.
SpecConc == Init /\ [][NextConc]_vars

\* ------------------------------------------------------------------ helpers of the properties

IsPrefix(s, t) == Len(s) <= Len(t) /\ SubSeq(t, 1, Len(s)) = s

KeyNames == {"temperature", "current", "voltage"}

\* The readings of a log whose current is strictly above 1e-9 A, in log order.
Qualifying(log) ==
    SelectSeq(log, LAMBDA d : ~d.current.nan /\ d.current.v > CurrentTolerance)

AllSame(s) == \A i, j \in 1..Len(s) : s[i] = s[j]

LogRejected == response.op = "log_data" /\ response.status # 201
LogAccepted == response.op = "log_data" /\ response.status = 201
Calculated  == response.op = "calculate_band_gap"

\* ------------------------------------------------------------------ C1

\* C1: when log_data requests (valid and invalid) are handled one at a time,
\* a following get_all_data returns count = the number of requests answered
\* 201 and data = the readings those requests carried, in submission order.
C1_CountAndOrder ==
    response.op = "get_all_data" =>
        /\ response.count = Len(accepted)
        /\ response.data = accepted

C1_Witness ==
    /\ response.op = "get_all_data"
    /\ response.count = 2
    /\ accepted[1] # accepted[2]

\* ------------------------------------------------------------------ C2

\* C2: a log_data payload with temperature, current or voltage missing or not
\* a number is answered with an error and leaves the log exactly as the
\* request found it; every entry of the log has all three keys converted.
C2_RejectLeavesStore ==
    /\ (response.op = "log_data" /\ invalid # {}) =>
           /\ response.kind = "error"
           /\ response.status = 500
           /\ EXPERIMENTAL_DATA_LOG = before
    /\ \A i \in 1..Len(EXPERIMENTAL_DATA_LOG) :
           \A f \in KeyNames : EXPERIMENTAL_DATA_LOG[i][f].kind = "float"

\* voltage, the last key converted, is the one at fault, and the log holds a
\* reading already.
C2_Witness ==
    /\ LogRejected
    /\ invalid = {"voltage"}
    /\ Len(EXPERIMENTAL_DATA_LOG) = 1
    /\ EXPERIMENTAL_DATA_LOG = before

\* ------------------------------------------------------------------ C3

\* C3: with log_data handled one at a time, the k-th request answered 201
\* returns id k-1, the 0-based position of its reading in the log; rejected
\* requests use up no id, and an id keeps naming the same reading.
C3_IdIsPosition ==
    /\ Len(ids) = Len(accepted)
    /\ \A k \in 1..Len(ids) :
           /\ ids[k] = k - 1
           /\ ids[k] + 1 \in 1..Len(EXPERIMENTAL_DATA_LOG)
           /\ EXPERIMENTAL_DATA_LOG[ids[k] + 1] = accepted[k]
    /\ LogAccepted => response.id = Len(before)

C3_Witness ==
    /\ LogAccepted
    /\ response.id = 1
    /\ accepted[1] # accepted[2]

\* ------------------------------------------------------------------ C4

\* C4: whenever fewer than 2 readings of the log have current > 1e-9,
\* calculate_band_gap answers 400 with {error}, whatever the temperatures.
C4_InsufficientData ==
    (Calculated /\ Len(Qualifying(EXPERIMENTAL_DATA_LOG)) < 2) =>
        /\ response.status = 400
        /\ response.kind = "error"

\* ------------------------------------------------------------------ C5

\* C5: the working set of calculate_band_gap holds exactly one point
\* (1/T_kelvin, ln current) per reading with current > 1e-9, in log order,
\* inv_T and ln_I of equal length; get_all_data still returns every reading.
C5_WorkingSet ==
    /\ Calculated =>
           LET q == Qualifying(EXPERIMENTAL_DATA_LOG) IN
           /\ Len(X_inv_T) = Len(Y_ln_I)
           /\ Len(X_inv_T) = Len(q)
           /\ \A k \in 1..Len(q) :
                  /\ X_inv_T[k] = Inverse(T_kelvin(q[k].temperature))
                  /\ Y_ln_I[k] = math_log(q[k].current)
    /\ response.op = "get_all_data" => response.data = EXPERIMENTAL_DATA_LOG

\* ------------------------------------------------------------------ C6

\* C6: the log only grows at its end: every step leaves the old log a prefix
\* of the new one, and calculate_band_gap, get_all_data and a rejected
\* log_data leave it unchanged.
C6_AppendOnly ==
    [][ /\ IsPrefix(EXPERIMENTAL_DATA_LOG, EXPERIMENTAL_DATA_LOG')
        /\ (response'.op \in {"calculate_band_gap", "get_all_data"}
              \/ (response'.op = "log_data" /\ response'.status # 201))
             => EXPERIMENTAL_DATA_LOG' = EXPERIMENTAL_DATA_LOG ]_vars

\* calculate_band_gap has run on a log of two readings, one of them dropped
\* from the fit.
C6_Witness ==
    /\ Calculated
    /\ Len(EXPERIMENTAL_DATA_LOG) = 2
    /\ Len(X_inv_T) = 1

\* ------------------------------------------------------------------ C7

\* C7: two calculate_band_gap requests with no successful log_data between
\* them get the same response.
C7_Idempotent == repeated.set => repeated.first = repeated.second

C7_Witness ==
    /\ repeated.set
    /\ repeated.second.kind = "success"
    /\ ~repeated.second.r_squared.nan

\* ------------------------------------------------------------------ C8

\* C8: with at least 2 points in the working set and no variance in x or in
\* y, calculate_band_gap answers 500 with {error}, never success.
C8_ZeroVariance ==
    (/\ Calculated
     /\ response.kind # "unhandled"
     /\ Len(X_inv_T) >= 2
     /\ ~AnyNaN(X_inv_T)
     /\ AllSame(X_inv_T) \/ AllSame(Y_ln_I)) =>
        /\ response.status = 500
        /\ response.kind = "error"

\* ------------------------------------------------------------------ C9

\* C9: every calculate_band_gap request ends with the success response, with
\* 400 and {error} or with 500 and {error}, and leaves the log intact.
C9_ThreeOutcomes ==
    Calculated =>
        /\ \/ response.status = 200 /\ response.kind = "success"
           \/ response.status = 400 /\ response.kind = "error"
           \/ response.status = 500 /\ response.kind = "error"
        /\ EXPERIMENTAL_DATA_LOG = before

\* ------------------------------------------------------------------ C10

\* C10 as stated: under any interleaving every id answered by log_data is
\* the position of the request's own reading, so no id is answered twice.
C10_OwnPosition ==
    /\ \A r \in returned : r.id = r.pos
    /\ Len(ids) = Cardinality({ids[k] : k \in 1..Len(ids)})

\* C10 as amended: the id answered is the position of the last reading in the
\* log when the request reads the length: the position of its own reading
\* plus the number of readings other requests appended after it.
C10_LastPosition ==
    \A r \in returned : r.id = r.pos + r.later

\* Two requests were answered the same id.
C10_Witness ==
    \E r1, r2 \in returned : r1.id = r2.id /\ r1.pos # r2.pos


====
